---- MODULE Spec2Model ----
(***************************************************************************)
(* Model of ppsplit.py: the paragraph segmenter process_large_text and the *)
(* worker threads that run it.                                             *)
(*                                                                         *)
(* Texts are sequences of string tokens.  The text of sentence k is the    *)
(* one-token text <<ToString(k)>>; " " and "\n\n" are the separator tokens *)
(* that the two join calls insert.  Python indexes sentences from 0 and    *)
(* the model from 1, so the source's loop variable i = 1..N-1 is the       *)
(* model's i = 2..N.                                                       *)
(*                                                                         *)
(* Embedding vectors are two-dimensional integer vectors taken from a      *)
(* small catalogue in which every norm is an integer, so that dot product, *)
(* norm and cosine similarity are computed exactly.  A similarity is kept  *)
(* in units of 1/Scale; a float that may be not-a-number is a record       *)
(* [nan, num, den] standing for num/(den*Scale).                           *)
(*                                                                         *)
(* threshold, max_sentences and window_size are assigned constants in the  *)
(* source (lines 49-51).  The model keeps them as variables fixed by Init, *)
(* ranging over sets that contain the source's values, so that the loop's  *)
(* code can be examined under other configurations as well.                *)
(***************************************************************************)
EXTENDS Integers, Sequences, FiniteSets, TLC

VARIABLES
    pc,             \* per thread: "idle", "start", "loop" or "done"
    vectors,        \* per thread: the embedding vector of each sentence
    paragraphs,     \* per thread: the list of closed paragraph texts
    current_para,   \* per thread: the list of sentence texts of the open paragraph
    prev_vectors,   \* per thread: the window of recent vectors
    i,              \* per thread: the loop variable (1-based), 0 before the loop
    avg_similarity, \* per thread: the average computed by the last iteration
    result,         \* per thread: the returned text
    threshold,      \* in hundredths
    max_sentences,
    window_size,
    notes,          \* per thread: the calls made to the thread's callback, in order
    processed,      \* the text handed to save_result
    written,        \* the text save_result wrote to the file
    save_pc         \* "none", "pending" (save_result scheduled) or "saved"

\* the state of saving
uivars == <<processed, written, save_pc>>

vars == <<pc, vectors, paragraphs, current_para, prev_vectors, i,
          avg_similarity, result, threshold, max_sentences, window_size,
          notes, processed, written, save_pc>>

\* ------------------------------------------------------------------ bounds

MaxN == 5

MaxNConc == 3

MaxNWorker == 120

MaxPieces == 4

\* ------------------------------------------------------- program constants

DefaultThreshold == 65

DefaultMaxSentences == 4

DefaultWindowSize == 2

BatchSize == 50

\* ------------------------------------------------------------ the threads

Threads == {1, 2}

\* ------------------------------------------------------------------ floats

Scale == 65 * 65

NaN == [nan |-> TRUE, num |-> 0, den |-> 1]

Float(n, d) == [nan |-> FALSE, num |-> n, den |-> d]

\* mutant of Less: the comparison the wrong way round
LessFlipped(a, thr) == ~a.nan /\ a.num * 100 > thr * Scale * a.den

\* mutant of Less: an average equal to the threshold also counts as below
LessOrEqual(a, thr) == ~a.nan /\ a.num * 100 <= thr * Scale * a.den

\* a < thr/100 as Python compares floats: any comparison with nan is False.
Less(a, thr) == ~a.nan /\ a.num * 100 < thr * Scale * a.den

\* ----------------------------------------------------------------- vectors

ZeroVec == <<0, 0>>

Vecs == {ZeroVec, <<63, 16>>, <<60, 25>>, <<-16, 63>>}

VecsConc == {ZeroVec, <<63, 16>>, <<-16, 63>>}

Dot(u, v) == u[1] * v[1] + u[2] * v[2]

Norm(v) == CHOOSE r \in 0..65 : r * r = Dot(v, v)

\* np.dot(v, current_vec) / (norms[i] * np.linalg.norm(v)); 0/0 is nan.
Sim(v, current_vec, norm_i) ==
    LET d == norm_i * Norm(v)
    IN  IF d = 0 THEN NaN
        ELSE Float((Dot(v, current_vec) * Scale) \div d, 1)

RECURSIVE SumNum(_)
SumNum(sims) ==
    IF sims = <<>> THEN 0 ELSE sims[1].num + SumNum(Tail(sims))

\* np.mean(similarities) if similarities else 0
Mean(sims) ==
    IF sims = <<>> THEN Float(0, 1)
    ELSE IF \E k \in 1..Len(sims) : sims[k].nan THEN NaN
    ELSE Float(SumNum(sims), Len(sims))

\* ------------------------------------------------------------------- lists

\* Python's seq[-w:]
LastSlice(seq, w) ==
    IF w > 0 THEN
        IF w >= Len(seq) THEN seq ELSE SubSeq(seq, Len(seq) - w + 1, Len(seq))
    ELSE IF w = 0 THEN seq
    ELSE SubSeq(seq, (0 - w) + 1, Len(seq))

\* sep.join(texts)
RECURSIVE Join(_, _)
Join(texts, sep) ==
    IF texts = <<>> THEN <<>>
    ELSE IF Len(texts) = 1 THEN texts[1]
    ELSE texts[1] \o <<sep>> \o Join(Tail(texts), sep)

SentenceText(k) == <<ToString(k)>>

\* sentences[k] of thread t (1-based)
Sentence(t, k) == SentenceText(k)

NumSentences(t) == Len(vectors[t])

\* ----------------------------------------------- the body of the loop

\* mutant of Locals: the window kept in one place for all invocations
LocalsSharedWindow(t) ==
    [paragraphs |-> paragraphs[t], current_para |-> current_para[t],
     prev_vectors |-> prev_vectors[1], avg_similarity |-> avg_similarity[t]]

\* mutant of Locals: the result list kept in one place for all invocations
LocalsSharedParagraphs(t) ==
    [paragraphs |-> paragraphs[1], current_para |-> current_para[t],
     prev_vectors |-> prev_vectors[t], avg_similarity |-> avg_similarity[t]]

\* the loop's mutable locals of thread t
Locals(t) ==
    [paragraphs |-> paragraphs[t], current_para |-> current_para[t],
     prev_vectors |-> prev_vectors[t], avg_similarity |-> avg_similarity[t]]

\* similarities of current_vec with the vectors of prev_vectors[-window_size:]
Similarities(prev, current_vec, norm_i) ==
    LET win == LastSlice(prev, window_size)
    IN  [k \in 1..Len(win) |-> Sim(win[k], current_vec, norm_i)]

\* mutant of BreakConditions: the length test off by one
BreakConditionsOffByOne(avg, para) ==
    <<Less(avg, threshold), Len(para) > max_sentences>>

\* mutant of BreakConditions: the length test fires one sentence early
BreakConditionsEarly(avg, para) ==
    <<Less(avg, threshold), Len(para) >= max_sentences - 1>>

BreakConditions(avg, para) ==
    <<Less(avg, threshold), Len(para) >= max_sentences>>

\* mutant of AnyOf: all() in place of any()
AllOf(conds) == \A k \in 1..Len(conds) : conds[k]

\* any(break_conditions)
AnyOf(conds) == \E k \in 1..Len(conds) : conds[k]

\* mutant of CloseParagraph: the closed paragraph is not appended
CloseParagraphLost(st, text, current_vec) ==
    [st EXCEPT !.current_para = <<text>>,
               !.prev_vectors = <<current_vec>>]

\* mutant of CloseParagraph: the window is not reset
CloseParagraphKeepWindow(st, text, current_vec) ==
    [st EXCEPT !.paragraphs = Append(st.paragraphs, Join(st.current_para, " ")),
               !.current_para = <<text>>,
               !.prev_vectors = Append(st.prev_vectors, current_vec)]

\* the if-branch: close the paragraph and start one with sentence k
CloseParagraph(st, text, current_vec) ==
    [st EXCEPT !.paragraphs = Append(st.paragraphs, Join(st.current_para, " ")),
               !.current_para = <<text>>,
               !.prev_vectors = <<current_vec>>]

\* the else-branch: sentence k joins the open paragraph
ExtendParagraph(st, text, current_vec) ==
    [st EXCEPT !.current_para = Append(st.current_para, text),
               !.prev_vectors = Append(st.prev_vectors, current_vec)]

\* mutant of MaintainWindow: the window is never cut
MaintainWindowNone(st) == st

\* prev_vectors = prev_vectors[-window_size:]
MaintainWindow(st) ==
    [st EXCEPT !.prev_vectors = LastSlice(st.prev_vectors, window_size)]

\* one iteration, for sentence k with text `text`, on the sequence vecs
LoopBody(st, vecs, k, text) ==
    LET current_vec == vecs[k]
        avg == Mean(Similarities(st.prev_vectors, current_vec, Norm(vecs[k])))
        st1 == [st EXCEPT !.avg_similarity = avg]
        st2 == IF AnyOf(BreakConditions(avg, st.current_para))
               THEN CloseParagraph(st1, text, current_vec)
               ELSE ExtendParagraph(st1, text, current_vec)
    IN  MaintainWindow(st2)

\* mutant of FinalParagraphs: the open paragraph is not flushed
FinalParagraphsNoFlush(st) == st.paragraphs

\* the end of the function: flush the open paragraph and join
FinalParagraphs(st) ==
    IF st.current_para # <<>>
    THEN Append(st.paragraphs, Join(st.current_para, " "))
    ELSE st.paragraphs

\* ------------------------------------------------- the embedding pre-pass

\* a call callback(kind, value); raised tells whether the call raised
Note(kind, num, den, text, raised) ==
    [kind |-> kind, num |-> num, den |-> den, text |-> text, raised |-> raised]

\* range(b, n, batch_size)
RECURSIVE BatchStarts(_, _)
BatchStarts(b, n) ==
    IF b >= n THEN <<>> ELSE <<b>> \o BatchStarts(b + BatchSize, n)

\* mutant of ProgressNote: the fraction done after the batch, not before it
ProgressNoteAfter(b, n) == Note("progress", b + BatchSize, n, <<>>, FALSE)

\* progress_callback(i/len(sentences)), as the thread's lambda passes it on
ProgressNote(b, n) == Note("progress", b, n, <<>>, FALSE)

\* the progress calls of the whole batch loop over n sentences
ProgressNotes(n) ==
    LET starts == BatchStarts(0, n)
    IN  [k \in 1..Len(starts) |-> ProgressNote(starts[k], n)]

\* ----------------------------------------------------------------- actions

\* sentence splitting, the empty-input return, embedding, and the
\* initialisation of the loop's locals
Start(t) ==
    /\ pc[t] = "start"
    /\ IF NumSentences(t) = 0
       THEN /\ result' = [result EXCEPT ![t] = <<>>]
            /\ pc' = [pc EXCEPT ![t] = "done"]
            /\ UNCHANGED <<paragraphs, current_para, prev_vectors, i, notes>>
       ELSE /\ paragraphs' = [paragraphs EXCEPT ![t] = <<>>]
            /\ current_para' = [current_para EXCEPT ![t] = <<Sentence(t, 1)>>]
            /\ prev_vectors' = [prev_vectors EXCEPT ![t] = <<vectors[t][1]>>]
            /\ i' = [i EXCEPT ![t] = 2]
            /\ pc' = [pc EXCEPT ![t] = "loop"]
            /\ notes' = [notes EXCEPT ![t] = notes[t] \o ProgressNotes(NumSentences(t))]
            /\ UNCHANGED result
    /\ UNCHANGED <<vectors, avg_similarity, threshold, max_sentences, window_size>>
    /\ UNCHANGED uivars

\* one iteration of the for loop
Step(t) ==
    /\ pc[t] = "loop"
    /\ i[t] <= NumSentences(t)
    /\ LET st == LoopBody(Locals(t), vectors[t], i[t], Sentence(t, i[t]))
       IN  /\ paragraphs' = [paragraphs EXCEPT ![t] = st.paragraphs]
           /\ current_para' = [current_para EXCEPT ![t] = st.current_para]
           /\ prev_vectors' = [prev_vectors EXCEPT ![t] = st.prev_vectors]
           /\ avg_similarity' = [avg_similarity EXCEPT ![t] = st.avg_similarity]
    /\ i' = [i EXCEPT ![t] = i[t] + 1]
    /\ UNCHANGED <<pc, vectors, result, threshold, max_sentences, window_size>>
    /\ UNCHANGED <<notes, uivars>>

\* after the loop: flush, join and return
Finish(t) ==
    /\ pc[t] = "loop"
    /\ i[t] > NumSentences(t)
    /\ paragraphs' = [paragraphs EXCEPT ![t] = FinalParagraphs(Locals(t))]
    /\ result' = [result EXCEPT ![t] = Join(paragraphs'[t], "\n\n")]
    /\ pc' = [pc EXCEPT ![t] = "done"]
    /\ UNCHANGED <<vectors, current_para, prev_vectors, i, avg_similarity,
                   threshold, max_sentences, window_size>>
    /\ UNCHANGED <<notes, uivars>>

Next == \E t \in Threads : Start(t) \/ Step(t) \/ Finish(t)

\* ------------------------------------------------------------ initial states

RECURSIVE SeqsUpTo(_, _)
SeqsUpTo(S, n) ==
    IF n = 0 THEN {<<>>}
    ELSE LET shorter == SeqsUpTo(S, n - 1)
         IN  shorter \cup {Append(q, x) : q \in shorter, x \in S}

Thresholds == {DefaultThreshold, 100}

MaxSentencesChoices == {1, 2, DefaultMaxSentences}

WindowSizes == {1, DefaultWindowSize, 3}

\* save_result has not been scheduled
NoSave == processed = <<>> /\ written = <<>> /\ save_pc = "none"

InitLocals ==
    /\ paragraphs = [t \in Threads |-> <<>>]
    /\ current_para = [t \in Threads |-> <<>>]
    /\ prev_vectors = [t \in Threads |-> <<>>]
    /\ i = [t \in Threads |-> 0]
    /\ avg_similarity = [t \in Threads |-> Float(0, 1)]
    /\ result = [t \in Threads |-> <<>>]
    /\ notes = [t \in Threads |-> <<>>]

\* one invocation, any valid configuration
Init ==
    /\ pc = [t \in Threads |-> IF t = 1 THEN "start" ELSE "idle"]
    /\ \E vs \in SeqsUpTo(Vecs, MaxN) :
         vectors = [t \in Threads |-> IF t = 1 THEN vs ELSE <<>>]
    /\ threshold \in Thresholds
    /\ max_sentences \in MaxSentencesChoices
    /\ window_size \in WindowSizes
    /\ InitLocals
    /\ NoSave

Spec == Init /\ [][Next]_vars

\* one invocation, configurations that may be invalid
InitAnyConfig ==
    /\ pc = [t \in Threads |-> IF t = 1 THEN "start" ELSE "idle"]
    /\ \E vs \in SeqsUpTo(VecsConc, MaxNConc) :
         vectors = [t \in Threads |-> IF t = 1 THEN vs ELSE <<>>]
    /\ threshold \in Thresholds
    /\ max_sentences \in 0..DefaultMaxSentences
    /\ window_size \in (0 - 1)..DefaultWindowSize
    /\ InitLocals
    /\ NoSave

SpecAnyConfig == InitAnyConfig /\ [][Next]_vars

\* two worker threads running at the same time, the source's configuration
InitThreads ==
    /\ pc = [t \in Threads |-> "start"]
    /\ vectors \in [Threads -> SeqsUpTo(VecsConc, MaxNConc)]
    /\ threshold = DefaultThreshold
    /\ max_sentences = DefaultMaxSentences
    /\ window_size = DefaultWindowSize
    /\ InitLocals
    /\ NoSave

SpecThreads == InitThreads /\ [][Next]_vars

\* ------------------------------------------- reading a text back, for claims

ValidConfig == max_sentences >= 1 /\ window_size >= 1

Active == {t \in Threads : pc[t] # "idle"}

\* the sentence tokens of a paragraph text, in order
SentencesIn(text) == SelectSeq(text, LAMBDA tok : tok # " ")

\* the pieces of a text between occurrences of sep; the empty text has none
RECURSIVE SplitText(_, _)
SplitText(text, sep) ==
    IF text = <<>> THEN <<>>
    ELSE IF \E k \in 1..Len(text) : text[k] = sep
    THEN LET at == CHOOSE k \in 1..Len(text) :
                     /\ text[k] = sep
                     /\ \A j \in 1..(k - 1) : text[j] # sep
         IN  <<SubSeq(text, 1, at - 1)>> \o SplitText(SubSeq(text, at + 1, Len(text)), sep)
    ELSE <<text>>

\* the sentence tokens of a list of paragraph texts, in order
RECURSIVE Flatten(_)
Flatten(paras) ==
    IF paras = <<>> THEN <<>> ELSE SentencesIn(paras[1]) \o Flatten(Tail(paras))

\* the tokens of sentences 1..n in document order
Document(n) == [k \in 1..n |-> ToString(k)]

\* the output that puts every sentence in a paragraph of its own
Singletons(n) == [k \in 1..n |-> SentenceText(k)]

\* the paragraphs of the returned text
Output(t) == SplitText(result[t], "\n\n")

\* the similarity of sentences a and b of thread t
PairSim(t, a, b) == Sim(vectors[t][a], vectors[t][b], Norm(vectors[t][b]))

\* --------------------------------------------------------------- C1

\* C1 (partition): with a valid configuration, at every point of the loop the
\* closed paragraphs followed by the open one hold exactly sentences 1..i-1 in
\* document order, and the paragraphs of the returned text, read in order, hold
\* exactly sentences 1..N in document order, each once.
C1_Partition ==
    \A t \in Active :
        /\ (ValidConfig /\ pc[t] = "loop") =>
              Flatten(paragraphs[t]) \o Flatten(current_para[t]) = Document(i[t] - 1)
        /\ (ValidConfig /\ pc[t] = "done") =>
              /\ Flatten(Output(t)) = Document(NumSentences(t))
              /\ Output(t) = paragraphs[t]

C1_Witness ==
    \E t \in Active :
        /\ ValidConfig /\ pc[t] = "done" /\ NumSentences(t) >= 4
        /\ Len(Output(t)) >= 2
        /\ \E k \in 1..Len(Output(t)) : Len(SentencesIn(Output(t)[k])) >= 2

\* --------------------------------------------------------------- C2

\* C2 (length bound): with max_sentences >= 1 the open paragraph always holds
\* between 1 and max_sentences sentences, and so does every paragraph closed in
\* the loop or flushed after it.
C2_LengthBound ==
    \A t \in Active :
        (max_sentences >= 1 /\ pc[t] \in {"loop", "done"}) =>
            /\ pc[t] = "loop" =>
                  (Len(current_para[t]) >= 1 /\ Len(current_para[t]) <= max_sentences)
            /\ \A k \in 1..Len(paragraphs[t]) :
                  /\ Len(SentencesIn(paragraphs[t][k])) >= 1
                  /\ Len(SentencesIn(paragraphs[t][k])) <= max_sentences
            /\ \A k \in 1..Len(Output(t)) :
                  /\ Len(SentencesIn(Output(t)[k])) >= 1
                  /\ Len(SentencesIn(Output(t)[k])) <= max_sentences

C2_Witness ==
    \E t \in Active :
        /\ pc[t] = "done" /\ max_sentences = 2 /\ Len(Output(t)) >= 2
        /\ Len(SentencesIn(Output(t)[1])) = max_sentences
        /\ ~Less(avg_similarity[t], threshold)

\* --------------------------------------------------------------- C3

\* C3 (zero-norm tolerance), as claimed: the average that enters the break
\* decision is always a defined number, never not-a-number.
C3_DefinedFallback ==
    \A t \in Active : pc[t] \in {"loop", "done"} => ~avg_similarity[t].nan

\* --------------------------------------------------------------- C4

\* C4 (max-length boundary): with max_sentences = 1 the returned text has
\* exactly N paragraphs and paragraph k is sentence k alone.
C4_MaxLengthBoundary ==
    \A t \in Active :
        (max_sentences = 1 /\ window_size >= 1 /\ pc[t] = "done") =>
            Output(t) = Singletons(NumSentences(t))

C4_Witness ==
    \E t \in Active :
        /\ max_sentences = 1 /\ pc[t] = "done" /\ NumSentences(t) >= 3
        /\ ~Less(avg_similarity[t], threshold)

\* --------------------------------------------------------------- C5

AllPairsBelowOne(t) ==
    \A a, b \in 1..NumSentences(t) :
        a < b => (~PairSim(t, a, b).nan /\ PairSim(t, a, b).num < Scale)

\* C5 (threshold boundary): with threshold = 1.0 and every pair of sentences
\* of similarity strictly below 1.0, for N >= 2 every step breaks: the open
\* paragraph always holds one sentence and the returned text has N paragraphs
\* of one sentence each.
C5_ThresholdBoundary ==
    \A t \in Active :
        (threshold = 100 /\ ValidConfig /\ NumSentences(t) >= 2 /\ AllPairsBelowOne(t)) =>
            /\ pc[t] = "loop" => Len(current_para[t]) = 1
            /\ pc[t] = "done" => Output(t) = Singletons(NumSentences(t))

C5_Witness ==
    \E t \in Active :
        /\ threshold = 100 /\ max_sentences > 1 /\ window_size >= 1
        /\ NumSentences(t) >= 3 /\ AllPairsBelowOne(t)
        /\ pc[t] = "done"

\* --------------------------------------------------------------- C6

\* C6 (trivial inputs): for N = 0 the function returns the empty text without
\* entering the loop; for N = 1 it returns the single sentence as the only
\* paragraph.
C6_TrivialInputs ==
    \A t \in Active :
        /\ (pc[t] = "done" /\ NumSentences(t) = 0) =>
              (result[t] = <<>> /\ Output(t) = <<>> /\ i[t] = 0)
        /\ (pc[t] = "done" /\ NumSentences(t) = 1) =>
              (result[t] = SentenceText(1) /\ Output(t) = <<SentenceText(1)>>)
        /\ (pc[t] # "done" /\ NumSentences(t) <= 1) => ENABLED Next

C6_Witness ==
    \E t \in Active : pc[t] = "done" /\ NumSentences(t) = 1 /\ result[t] # <<>>

\* --------------------------------------------------------------- C7

\* about 0.99
HighSim(s) == ~s.nan /\ s.num * 100 >= 95 * Scale

\* about 0.1
LowSim(s) == ~s.nan /\ s.num * 100 <= 20 * Scale /\ s.num * 100 >= (0 - 20) * Scale

WorkedExample(t) ==
    /\ NumSentences(t) = 5
    /\ threshold = DefaultThreshold
    /\ max_sentences = DefaultMaxSentences
    /\ window_size = DefaultWindowSize
    /\ \A a, b \in {1, 2, 3} : a < b => HighSim(PairSim(t, a, b))
    /\ HighSim(PairSim(t, 4, 5))
    /\ \A a \in {1, 2, 3}, b \in {4, 5} : LowSim(PairSim(t, a, b))

\* C7 (worked example): under the default configuration, five sentences of
\* which the first three are pairwise similar, the last two similar to each
\* other and dissimilar to the first three, come back as "1 2 3" and "4 5".
C7_WorkedExample ==
    \A t \in Active :
        (WorkedExample(t) /\ pc[t] = "done") =>
            result[t] = <<"1", " ", "2", " ", "3", "\n\n", "4", " ", "5">>

C7_Witness ==
    \E t \in Active :
        /\ WorkedExample(t) /\ pc[t] = "done"
        /\ \E a, b \in {1, 2, 3} : vectors[t][a] # vectors[t][b]
        /\ \E a \in {1, 2, 3} : PairSim(t, a, 4).num # 0

\* --------------------------------------------------------------- C8

AloneStart(vecs) ==
    [paragraphs |-> <<>>, current_para |-> <<SentenceText(1)>>,
     prev_vectors |-> <<vecs[1]>>, avg_similarity |-> Float(0, 1)]

\* the locals of a run on its own after sentences 1..k
RECURSIVE AloneLocals(_, _)
AloneLocals(vecs, k) ==
    IF k <= 1 THEN AloneStart(vecs)
    ELSE LoopBody(AloneLocals(vecs, k - 1), vecs, k, SentenceText(k))

\* the text a run on its own returns
AloneResult(vecs) ==
    IF vecs = <<>> THEN <<>>
    ELSE Join(FinalParagraphs(AloneLocals(vecs, Len(vecs))), "\n\n")

\* C10 (independence): under every interleaving of two invocations, each
\* holds at every point of its loop the locals it holds when run alone, and
\* returns the text it returns when run alone.
C10_Independent ==
    \A t \in Active :
        /\ pc[t] = "loop" =>
              /\ paragraphs[t] = AloneLocals(vectors[t], i[t] - 1).paragraphs
              /\ current_para[t] = AloneLocals(vectors[t], i[t] - 1).current_para
              /\ prev_vectors[t] = AloneLocals(vectors[t], i[t] - 1).prev_vectors
        /\ pc[t] = "done" => result[t] = AloneResult(vectors[t])

C10_Witness ==
    \E t, u \in Active :
        /\ t # u /\ vectors[t] # vectors[u]
        /\ NumSentences(t) >= 3 /\ NumSentences(u) >= 3
        /\ pc[t] = "done" /\ pc[u] = "loop" /\ i[u] = 3
        /\ Len(Output(t)) >= 2

\* --------------------------------------------------------------- C13

\* avg < threshold, stated on the recorded average
BelowThreshold(a) == ~a.nan /\ a.num * 100 < threshold * Scale * a.den

\* a = threshold
AtThreshold(a) == ~a.nan /\ a.num * 100 = threshold * Scale * a.den

\* thread t is about to run, or has just run, iteration i[t] of its loop
AtIteration(t) == pc[t] = "loop" /\ i[t] <= NumSentences(t)

\* the vectors of sentences lo..hi of thread t
VectorsOf(t, lo, hi) == [j \in 1..(hi - lo + 1) |-> vectors[t][lo + j - 1]]

\* the average similarity of sentence k with the sentences lo..hi
AverageAgainst(t, k, lo, hi) ==
    Mean([j \in 1..(hi - lo + 1) |->
            Sim(vectors[t][lo + j - 1], vectors[t][k], Norm(vectors[t][k]))])

\* the average similarity of sentence i[t] with the vectors now in the window
WindowAverage(t) ==
    Mean([j \in 1..Len(prev_vectors[t]) |->
            Sim(prev_vectors[t][j], vectors[t][i[t]], Norm(vectors[t][i[t]]))])

\* C13 (break rule): in every iteration, sentence i starts a new paragraph
\* exactly when the average over the window is strictly below the threshold or
\* the open paragraph already holds max_sentences sentences; then the closed
\* paragraph is appended to the result and the window becomes vector i alone;
\* otherwise sentence i is appended to the open paragraph.
C13_BreakRule ==
    [][\A t \in Active :
         (ValidConfig /\ AtIteration(t) /\ i'[t] = i[t] + 1) =>
            LET brk == \/ BelowThreshold(WindowAverage(t))
                       \/ Len(current_para[t]) >= max_sentences
            IN  /\ avg_similarity'[t] = WindowAverage(t)
                /\ brk <=> current_para'[t] = <<Sentence(t, i[t])>>
                /\ brk => /\ paragraphs'[t] =
                               Append(paragraphs[t], Join(current_para[t], " "))
                          /\ prev_vectors'[t] = <<vectors[t][i[t]]>>
                /\ ~brk => /\ paragraphs'[t] = paragraphs[t]
                           /\ current_para'[t] =
                                Append(current_para[t], Sentence(t, i[t]))]_vars

\* an iteration whose average was exactly the threshold did not break
C13_Witness ==
    \E t \in Active :
        /\ ValidConfig /\ pc[t] = "loop" /\ i[t] >= 3
        /\ AtThreshold(avg_similarity[t])
        /\ Len(current_para[t]) >= 2
        /\ Len(paragraphs[t]) >= 1

\* --------------------------------------------------------------- C14

Min(a, b) == IF a <= b THEN a ELSE b

Max(a, b) == IF a >= b THEN a ELSE b

\* C14 (window invariant): with window_size >= 1, whenever the loop is about
\* to run an iteration the window is non-empty, holds at most window_size
\* vectors, and holds exactly the vectors of the last min(window_size, k)
\* sentences of the open paragraph of k sentences.
C14_WindowInvariant ==
    \A t \in Active :
        (ValidConfig /\ pc[t] = "loop") =>
            LET k == Len(current_para[t])
                m == Min(window_size, k)
            IN  /\ prev_vectors[t] # <<>>
                /\ Len(prev_vectors[t]) <= window_size
                /\ Len(prev_vectors[t]) = m
                /\ prev_vectors[t] = VectorsOf(t, i[t] - m, i[t] - 1)

C14_Witness ==
    \E t \in Active :
        /\ ValidConfig /\ AtIteration(t)
        /\ Len(current_para[t]) > window_size
        /\ Len(paragraphs[t]) >= 1

\* --------------------------------------------------------------- C15

\* C15 (comparison set), as claimed: the average of iteration i is taken
\* against the vectors of the window_size sentences before sentence i,
\* whatever paragraph they are in.
C15_LastWindowSizeSentences ==
    [][\A t \in Active :
         (ValidConfig /\ AtIteration(t) /\ i'[t] = i[t] + 1) =>
            LET lo == Max(1, i[t] - window_size)
            IN  /\ LastSlice(prev_vectors[t], window_size) = VectorsOf(t, lo, i[t] - 1)
                /\ avg_similarity'[t] = AverageAgainst(t, i[t], lo, i[t] - 1)]_vars

\* C15 as amended: the average of iteration i is taken against the vectors of
\* the last min(window_size, k) sentences before sentence i, k being the
\* number of sentences of the open paragraph: sentences of closed paragraphs
\* are not compared.
C15_LastOfOpenParagraph ==
    [][\A t \in Active :
         (ValidConfig /\ AtIteration(t) /\ i'[t] = i[t] + 1) =>
            LET lo == Max(i[t] - Len(current_para[t]), i[t] - window_size)
            IN  /\ LastSlice(prev_vectors[t], window_size) = VectorsOf(t, lo, i[t] - 1)
                /\ avg_similarity'[t] = AverageAgainst(t, i[t], lo, i[t] - 1)]_vars

\* an iteration has run right after a break, with more sentences before it
\* than its paragraph held
C15_Witness ==
    \E t \in Active :
        /\ ValidConfig /\ pc[t] = "loop" /\ i[t] >= 4
        /\ window_size >= 2
        /\ Len(current_para[t]) = 2
        /\ Len(paragraphs[t]) >= 1
        /\ ~avg_similarity[t].nan

\* --------------------------------------------------------------- C16

\* no iteration of a run on vecs finds its average below the threshold
NoSimilarityBreak(vecs) ==
    \A k \in 2..Len(vecs) : ~BelowThreshold(AloneLocals(vecs, k).avg_similarity)

\* sentences lo..hi joined by spaces
Block(lo, hi) == Join([j \in 1..(hi - lo + 1) |-> SentenceText(lo + j - 1)], " ")

\* sentences 1..n cut into blocks of m, the last one holding the rest
Blocks(n, m) ==
    [j \in 1..((n + m - 1) \div m) |-> Block((j - 1) * m + 1, Min(j * m, n))]

\* the number of sentences in paragraphs 1..j of paras
RECURSIVE SentencesUpTo(_, _)
SentencesUpTo(paras, j) ==
    IF j = 0 THEN 0
    ELSE Len(SentencesIn(paras[j])) + SentencesUpTo(paras, j - 1)

\* C16 (forced breaks fill paragraphs): if no iteration finds its average
\* below the threshold, the returned text has ceil(N / max_sentences)
\* paragraphs, all of max_sentences sentences but the last, which holds the
\* rest; and in every run a paragraph other than the last that is shorter than
\* max_sentences was closed by an average below the threshold.
C16_ForcedBreaksFill ==
    \A t \in Active :
        (ValidConfig /\ pc[t] = "done") =>
            /\ NoSimilarityBreak(vectors[t]) =>
                  Output(t) = Blocks(NumSentences(t), max_sentences)
            /\ \A j \in 1..(Len(Output(t)) - 1) :
                  Len(SentencesIn(Output(t)[j])) < max_sentences =>
                      BelowThreshold(
                          AloneLocals(vectors[t],
                                      SentencesUpTo(Output(t), j) + 1).avg_similarity)

C16_Witness ==
    \E t \in Active :
        /\ ValidConfig /\ pc[t] = "done" /\ max_sentences = 2
        /\ NumSentences(t) >= 5
        /\ NoSimilarityBreak(vectors[t])
        /\ Len(Output(t)) >= 3

\* ------------------------------------------------ the worker thread's run

\* process_large_text is left by an exception: the r-th progress call raises
ProgressRaises(t) ==
    /\ pc[t] = "start"
    /\ NumSentences(t) > 0
    /\ \E r \in 1..Len(ProgressNotes(NumSentences(t))) :
         LET calls == ProgressNotes(NumSentences(t))
         IN  notes' = [notes EXCEPT ![t] =
                          notes[t] \o SubSeq(calls, 1, r - 1)
                                   \o <<[calls[r] EXCEPT !.raised = TRUE]>>]
    /\ pc' = [pc EXCEPT ![t] = "except"]
    /\ UNCHANGED <<vectors, paragraphs, current_para, prev_vectors, i,
                   avg_similarity, result, threshold, max_sentences, window_size>>
    /\ UNCHANGED uivars

\* self.callback("success", processed), inside the try block; update_status
\* schedules save_result unless the call raises
Success(t) ==
    /\ pc[t] = "done"
    /\ \E raises \in BOOLEAN :
         /\ notes' = [notes EXCEPT ![t] =
                         Append(notes[t], Note("success", 0, 1, result[t], raises))]
         /\ pc' = [pc EXCEPT ![t] = IF raises THEN "except" ELSE "finished"]
         /\ IF raises
            THEN UNCHANGED uivars
            ELSE /\ processed' = result[t]
                 /\ save_pc' = "pending"
                 /\ UNCHANGED written
    /\ UNCHANGED <<vectors, paragraphs, current_para, prev_vectors, i,
                   avg_similarity, result, threshold, max_sentences, window_size>>

\* the except clause: self.callback("error", str(e)); if this call raises too
\* the thread ends with the exception
Except(t) ==
    /\ pc[t] = "except"
    /\ \E raises \in BOOLEAN :
         /\ notes' = [notes EXCEPT ![t] =
                         Append(notes[t], Note("error", 0, 1, <<"error">>, raises))]
         /\ pc' = [pc EXCEPT ![t] = IF raises THEN "died" ELSE "finished"]
    /\ UNCHANGED <<vectors, paragraphs, current_para, prev_vectors, i,
                   avg_similarity, result, threshold, max_sentences, window_size>>
    /\ UNCHANGED uivars

\* ------------------------------------------------------------- save_result

Digits == {"0", "1", "2", "3", "4", "5", "6", "7", "8", "9"}

\* the pattern \[\d{2}:\d{2}\] matches the text at position p
MatchesAt(text, p) ==
    /\ p >= 1
    /\ p + 6 <= Len(text)
    /\ text[p] = "["
    /\ text[p + 1] \in Digits
    /\ text[p + 2] \in Digits
    /\ text[p + 3] = ":"
    /\ text[p + 4] \in Digits
    /\ text[p + 5] \in Digits
    /\ text[p + 6] = "]"

\* mutant of Replacement: the newlines after the marker are left out
ReplacementBefore(marker) == <<"\n", "\n">> \o marker

\* the replacement r'\n\n\1\n\n'
Replacement(marker) == <<"\n", "\n">> \o marker \o <<"\n", "\n">>

\* re.sub(r'(\[\d{2}:\d{2}\])', r'\n\n\1\n\n', text): the matches are taken
\* from left to right and do not overlap
RECURSIVE ReSub(_)
ReSub(text) ==
    IF text = <<>> THEN <<>>
    ELSE IF MatchesAt(text, 1)
    THEN Replacement(SubSeq(text, 1, 7)) \o ReSub(SubSeq(text, 8, Len(text)))
    ELSE <<text[1]>> \o ReSub(Tail(text))

\* save_result: the substitution and the write of the file
SaveResult ==
    /\ save_pc = "pending"
    /\ written' = ReSub(processed)
    /\ save_pc' = "saved"
    /\ UNCHANGED <<pc, vectors, paragraphs, current_para, prev_vectors, i,
                   avg_similarity, result, threshold, max_sentences, window_size,
                   notes, processed>>

\* ------------------------------------------------- one worker thread's run

NextWorker ==
    \/ \E t \in Threads :
          \/ Start(t)
          \/ Step(t)
          \/ Finish(t)
          \/ ProgressRaises(t)
          \/ Success(t)
          \/ Except(t)
    \/ SaveResult

\* one thread on a text of up to MaxNWorker sentences, the source's
\* configuration
InitWorker ==
    /\ pc = [t \in Threads |-> IF t = 1 THEN "start" ELSE "idle"]
    /\ \E n \in 0..MaxNWorker :
         vectors = [t \in Threads |->
                      IF t = 1 THEN [k \in 1..n |-> <<63, 16>>] ELSE <<>>]
    /\ threshold = DefaultThreshold
    /\ max_sentences = DefaultMaxSentences
    /\ window_size = DefaultWindowSize
    /\ InitLocals
    /\ NoSave

SpecWorker == InitWorker /\ [][NextWorker]_vars

\* ------------------------------------------------------- save_result alone

Marker == <<"[", "0", "0", ":", "0", "5", "]">>

\* the pieces texts are put together from: a marker, its two halves, a
\* bracketed time of another form, and what the segmenter's joins insert
Pieces ==
    {Marker, <<"[", "0", "0", ":">>, <<"0", "5", "]">>,
     <<"[", "0", ":", "0", "5", "]">>, <<"x">>, <<" ">>, <<"\n", "\n">>}

RECURSIVE TextsUpTo(_)
TextsUpTo(n) ==
    IF n = 0 THEN {<<>>}
    ELSE LET shorter == TextsUpTo(n - 1)
         IN  shorter \cup {q \o x : q \in shorter, x \in Pieces}

InitSave ==
    /\ pc = [t \in Threads |-> "idle"]
    /\ vectors = [t \in Threads |-> <<>>]
    /\ threshold = DefaultThreshold
    /\ max_sentences = DefaultMaxSentences
    /\ window_size = DefaultWindowSize
    /\ InitLocals
    /\ processed \in TextsUpTo(MaxPieces)
    /\ written = <<>>
    /\ save_pc = "pending"

SpecSave == InitSave /\ [][SaveResult]_vars

\* --------------------------------------------------------------- C11

\* the progress calls among the calls of thread t
ProgressOf(t) == SelectSeq(notes[t], LAMBDA c : c.kind = "progress")

\* C11 (progress fractions): every reported fraction lies in [0,1), each is
\* strictly greater than the one before it, and a pre-pass that has run to
\* its end has reported once per batch.
C11_ProgressFractions ==
    \A t \in Active :
        LET ps == ProgressOf(t)
        IN  /\ \A k \in 1..Len(ps) :
                  /\ ps[k].den > 0
                  /\ ps[k].num >= 0
                  /\ ps[k].num < ps[k].den
            /\ \A k \in 1..(Len(ps) - 1) :
                  ps[k].num * ps[k + 1].den < ps[k + 1].num * ps[k].den
            /\ pc[t] \in {"loop", "done"} =>
                  Len(ps) = (NumSentences(t) + BatchSize - 1) \div BatchSize

C11_Witness ==
    \E t \in Active :
        /\ pc[t] = "loop"
        /\ NumSentences(t) > 2 * BatchSize
        /\ Len(ProgressOf(t)) = 3
        /\ ProgressOf(t)[3].num = 2 * BatchSize

\* --------------------------------------------------------------- C12

\* C12 (time markers): in the written text every occurrence of a marker
\* [dd:dd] has two newlines right before it and two newlines right after it.
C12_MarkersSetOff ==
    save_pc = "saved" =>
        \A q \in 1..Len(written) :
            MatchesAt(written, q) =>
                /\ q >= 3
                /\ written[q - 2] = "\n" /\ written[q - 1] = "\n"
                /\ q + 8 <= Len(written)
                /\ written[q + 7] = "\n" /\ written[q + 8] = "\n"

\* a text of two adjacent markers, at its start and at its end, was written
C12_Witness ==
    /\ save_pc = "saved"
    /\ processed = Marker \o Marker
    /\ MatchesAt(written, 3)
    /\ \E q \in 4..Len(written) : MatchesAt(written, q)

\* --------------------------------------------------------------- C17

Terminal(c) == c.kind \in {"success", "error"}

\* C17 (terminal notification), as claimed: a run that has ended has called
\* its callback with exactly one of "success" and "error", once, and after
\* every "progress" call, also when calls of the callback raise.
C17_OneTerminalNotification ==
    \A t \in Active :
        pc[t] \in {"finished", "died"} =>
            /\ Cardinality({k \in 1..Len(notes[t]) : Terminal(notes[t][k])}) = 1
            /\ Terminal(notes[t][Len(notes[t])])

====
